---- MODULE Spec2Model ----
(***************************************************************************)
(* A model of tools/llvm-sdg-dump.cpp: the annotation-option parser, the   *)
(* module annotator, the dot dumper and the driver (main) that runs them.  *)
(* Strings whose characters the code inspects (file names, the option      *)
(* list) are sequences of one-character strings; texts that are only       *)
(* concatenated (the module comment) are sequences of pieces.              *)
(***************************************************************************)
EXTENDS Integers, Sequences, FiniteSets, TLC

VARIABLES
    pc,                 \* position of main: parse, entry, construct, annotate, dump, done
    options,            \* SlicerOptions, as parseSlicerOptions returned it
    annotationOpts,     \* the -annotate command-line string
    dump_bb_only,       \* the -dump-bb-only flag
    env,                \* what the run meets: the input file, the build, the graph
    annotationOptions,  \* ModuleAnnotator::annotationOptions
    errs,               \* what was written to llvm::errs(), in order
    annotFile,          \* the annotated-IR file written, or NoFile
    dotFile,            \* the dot file written, or NoFile
    exitCode,           \* the process's exit status, Running while it runs
    log,                \* the calls main made, in order
    p_annot,            \* parseAnnotationOptions called alone: its argument,
    p_opts,             \*   its result,
    p_calls,            \*   and the number of calls made
    r_nodes,            \* criteria resolution: each node's location and variable,
    r_crit,             \*   the criterion (a location, and a variable or NoName),
    r_next,             \*   the next node of the scan,
    r_found,            \*   the nodes matched so far,
    r_pc,               \*   scan, done
    c_control,          \* secondary criteria: the control-dependence edges,
    c_data,             \*   the data-dependence edges,
    c_names,            \*   the two name sets (control, data),
    c_seeds,            \*   the seed nodes of the call,
    c_phase,            \*   idle, control, data
    c_work,             \*   the nodes reached and not yet visited,
    c_visited,          \*   the traversal's visited set,
    c_visits,           \*   how often the traversal visited each node,
    c_result,           \*   the node set the call builds,
    c_calls             \*   and the number of calls finished

mainVars == <<pc, options, annotationOpts, dump_bb_only, env, annotationOptions,
              errs, annotFile, dotFile, exitCode, log>>
parseVars == <<p_annot, p_opts, p_calls>>
resolveVars == <<r_nodes, r_crit, r_next, r_found, r_pc>>
closureVars == <<c_control, c_data, c_names, c_seeds, c_phase, c_work, c_visited,
                 c_visits, c_result, c_calls>>
vars == <<mainVars, parseVars, resolveVars, closureVars>>
notMain == <<parseVars, resolveVars, closureVars>>
notParse == <<mainVars, resolveVars, closureVars>>
notResolve == <<mainVars, parseVars, closureVars>>
notClosure == <<mainVars, parseVars, resolveVars>>

(***************************************************************************)
(* Bounds                                                                  *)
(***************************************************************************)
MaxTokens == 2      \* tokens in an option list
MaxStem == 2        \* characters of a file name before its extension
MaxCalls == 2       \* successive calls of parseAnnotationOptions
NumNodes == 3       \* nodes of a dependence graph
MaxClosureCalls == 2  \* successive searches for secondary criteria

(***************************************************************************)
(* Strings                                                                 *)
(***************************************************************************)
Comma == ","
Dot == "."

S_dd == <<"d", "d">>
S_cd == <<"c", "d">>
S_rd == <<"r", "d">>
S_pta == <<"p", "t", "a">>
S_slice == <<"s", "l", "i", "c", "e">>
S_sl == <<"s", "l">>
S_slicer == <<"s", "l", "i", "c", "e", "r">>

DebugSuffix == <<"-", "d", "e", "b", "u", "g", ".", "l", "l">>
DotSuffix == <<".", "d", "o", "t">>

RECURSIVE Find(_, _, _)
\* std::string::find(sep, pos), 1-based; 0 stands for npos
Find(s, c, pos) ==
    IF pos > Len(s) THEN 0
    ELSE IF s[pos] = c THEN pos
    ELSE Find(s, c, pos + 1)

RECURSIVE splitFrom(_, _)
splitFrom(s, pos) ==
    LET at == Find(s, Comma, pos)
    IN  IF at = 0 THEN <<SubSeq(s, pos, Len(s))>>
        ELSE <<SubSeq(s, pos, at - 1)>> \o splitFrom(s, at + 1)

\* splitList of llvm-slicer-utils.h: the items of a comma-separated list
splitList(s) == IF s = <<>> THEN <<>> ELSE splitFrom(s, 1)

RECURSIVE LastDot(_, _)
LastDot(s, i) ==
    IF i = 0 THEN 0
    ELSE IF s[i] = Dot THEN i
    ELSE LastDot(s, i - 1)

\* replace_suffix of llvm-slicer-utils.h: the final extension gives way to `with`
replace_suffix(fl, with) ==
    LET d == LastDot(fl, Len(fl))
    IN  IF d = 0 THEN fl \o with ELSE SubSeq(fl, 1, d - 1) \o with

(***************************************************************************)
(* parseAnnotationOptions                                                  *)
(***************************************************************************)
ANNOTATE_DD == "ANNOTATE_DD"
ANNOTATE_CD == "ANNOTATE_CD"
ANNOTATE_RD == "ANNOTATE_RD"
ANNOTATE_PTR == "ANNOTATE_PTR"
ANNOTATE_SLICE == "ANNOTATE_SLICE"
AllFlags == {ANNOTATE_DD, ANNOTATE_CD, ANNOTATE_RD, ANNOTATE_PTR, ANNOTATE_SLICE}

\* the loop body without the "sl" alias
parseOption_NoSl(opt, opts) ==
    IF opt = S_dd THEN opts \cup {ANNOTATE_DD}
    ELSE IF opt = S_cd THEN opts \cup {ANNOTATE_CD}
    ELSE IF opt = S_rd THEN opts \cup {ANNOTATE_RD}
    ELSE IF opt = S_pta THEN opts \cup {ANNOTATE_PTR}
    ELSE IF opt = S_slice \/ opt = S_slicer THEN opts \cup {ANNOTATE_SLICE}
    ELSE opts

\* the body of the loop over the list: one token, or-ed into opts
parseOption(opt, opts) ==
    IF opt = S_dd THEN opts \cup {ANNOTATE_DD}
    ELSE IF opt = S_cd THEN opts \cup {ANNOTATE_CD}
    ELSE IF opt = S_rd THEN opts \cup {ANNOTATE_RD}
    ELSE IF opt = S_pta THEN opts \cup {ANNOTATE_PTR}
    ELSE IF opt = S_slice \/ opt = S_sl \/ opt = S_slicer
         THEN opts \cup {ANNOTATE_SLICE}
    ELSE opts

RECURSIVE parseLoop(_, _, _)
parseLoop(lst, i, opts) ==
    IF i > Len(lst) THEN opts
    ELSE parseLoop(lst, i + 1, parseOption(lst[i], opts))

parseAnnotationOptions(annot) ==
    IF annot = <<>> THEN {}
    ELSE parseLoop(splitList(annot), 1, {})

(***************************************************************************)
(* ModuleAnnotator                                                         *)
(***************************************************************************)
NoFile == [written |-> FALSE]
Running == 0 - 1
EXIT_OK == 0
EXIT_ERROR == 1
EXIT_ABORT == 134   \* killed by SIGABRT: a failed assert, an uncaught exception

NL == "\n"
Offset_UNKNOWN == 0 - 1

DigitChar == <<"0", "1", "2", "3", "4", "5", "6", "7", "8", "9">>

RECURSIVE to_string(_)
\* std::to_string of an unsigned value (a bool prints as 0 or 1)
to_string(n) ==
    IF n < 10 THEN <<DigitChar[n + 1]>>
    ELSE to_string(n \div 10) \o <<DigitChar[(n % 10) + 1]>>

BoolInt(b) == IF b THEN 1 ELSE 0

shouldAnnotate_Always(annotO) == TRUE

\* ModuleAnnotator::shouldAnnotate: annotationOptions != 0
shouldAnnotate(annotO) == annotO # {}

\* the annotated file's name when the input's name has three characters or more
annotateName(fl) == SubSeq(fl, 1, Len(fl) - 3) \o DebugSuffix

\* fl.end() - 3 lies before fl.begin() for a shorter name: the behaviour is
\* undefined. A build either aborts (std::out_of_range from replace is not
\* caught) or goes on with a name made of whatever it read.
annotateNameUB(fl) == {DebugSuffix, fl \o DebugSuffix}

PtaLabel == ";   * pointer analysis: "
FieldLabel == ";   * PTA field sensitivity: "
CritLabel == ";   * slicing criteria: '"
SecCritLabel == ";   * secondary slicing criteria: '"

\* the pointer-analysis part of the module comment: no branch for a type
\* other than fi, fs and inv
ptaComment(analysisType) ==
    IF analysisType = "fi" THEN <<"flow-insensitive", NL>>
    ELSE IF analysisType = "fs" THEN <<"flow-sensitive", NL>>
    ELSE IF analysisType = "inv" THEN <<"flow-sensitive with invalidate", NL>>
    ELSE <<>>

fieldComment(fieldSensitivity) ==
    IF fieldSensitivity = Offset_UNKNOWN THEN <<"full", NL, NL>>
    ELSE to_string(fieldSensitivity) \o <<NL, NL>>

module_comment(o) ==
    <<"; -- Generated by llvm-slicer --", NL,
      CritLabel, o.slicingCriteria, "'", NL,
      SecCritLabel, o.secondarySlicingCriteria, "'", NL,
      ";   * forward slice: '">>
    \o to_string(BoolInt(o.forwardSlicing)) \o <<"'", NL,
      ";   * remove slicing criteria: '">>
    \o to_string(BoolInt(o.removeSlicingCriteria)) \o <<"'", NL,
      ";   * undefined are pure: '">>
    \o to_string(BoolInt(o.undefinedArePure)) \o <<"'", NL,
      PtaLabel>>
    \o ptaComment(o.analysisType)
    \o <<FieldLabel>>
    \o fieldComment(o.fieldSensitivity)

\* what the annotation writer is given and prints: the module comment, the
\* module's own text, and a comment block per instruction for each flag set
annotatedIR(fl, o, annotO) ==
    [written |-> TRUE, name |-> fl, comment |-> module_comment(o),
     blocks |-> annotO, text |-> "module"]

Msg(m, a) == [msg |-> m, arg |-> a]

(***************************************************************************)
(* The inputs of a run                                                     *)
(***************************************************************************)
RECURSIVE Repeat(_, _)
Repeat(c, n) == IF n = 0 THEN <<>> ELSE <<c>> \o Repeat(c, n - 1)

Extensions == {<<>>, <<".", "o">>, <<".", "c">>, <<".", "b", "c">>,
               <<".", "b", "c", "x">>}

\* the names an input file can have: "-" (standard input), and a stem of up
\* to MaxStem characters followed by an extension or none
FileNames ==
    ({Repeat("a", n) \o e : n \in 0..MaxStem, e \in Extensions} \ {<<>>})
    \cup {<<"-">>}

\* LLVMPointerAnalysisOptions::AnalysisType. The enumeration is declared in
\* a header of the library; the annotator names three of its enumerators and
\* tests for each, so "other" stands for any further value of the type.
AnalysisTypes == {"fi", "fs", "inv", "other"}

FieldSensitivities == {Offset_UNKNOWN, 12}

\* the -annotate strings of a run
RunAnnotationOpts ==
    {<<>>, S_dd, S_sl \o <<Comma>> \o S_pta, <<"x">>, <<Comma>>}

EntryFunction == <<"m", "a", "i", "n">>

SlicerOptions ==
    [inputFile : FileNames,
     slicingCriteria : {"", "ret"},
     secondarySlicingCriteria : {""},
     forwardSlicing : BOOLEAN,
     removeSlicingCriteria : {FALSE},
     undefinedArePure : {FALSE},
     analysisType : AnalysisTypes,
     fieldSensitivity : FieldSensitivities,
     entryFunction : {EntryFunction}]

\* parseOk: the input file parses; entryFound: the module has the entry
\* function; ndebug: the build defines NDEBUG, so assert expands to nothing;
\* criteriaFound: some node matches the primary criterion; secondaryOk: the
\* search for the secondary criteria can be made
Environments ==
    [parseOk : BOOLEAN, entryFound : BOOLEAN, ndebug : BOOLEAN,
     criteriaFound : BOOLEAN, secondaryOk : BOOLEAN]

ParseIdle ==
    /\ p_annot = <<>>
    /\ p_opts = {}
    /\ p_calls = 0

Nodes == 1..NumNodes
NoName == "-"

ResolveIdle ==
    /\ r_nodes = [n \in Nodes |-> [loc |-> "L1", name |-> "x"]]
    /\ r_crit = [loc |-> "L1", name |-> NoName]
    /\ r_next = 1
    /\ r_found = {}
    /\ r_pc = "done"

ClosureIdle ==
    /\ c_control = {}
    /\ c_data = {}
    /\ c_names = [control |-> {}, data |-> {}]
    /\ c_seeds = {}
    /\ c_phase = "idle"
    /\ c_work = {}
    /\ c_visited = {}
    /\ c_visits = [n \in Nodes |-> 0]
    /\ c_result = {}
    /\ c_calls = 0

\* the state when main starts, for input files named in `names`
InitRun(names) ==
    /\ pc = "parse"
    /\ options \in {o \in SlicerOptions : o.inputFile \in names}
    /\ annotationOpts \in RunAnnotationOpts
    /\ dump_bb_only \in BOOLEAN
    /\ env \in Environments
    /\ annotationOptions = {}
    /\ errs = <<>>
    /\ annotFile = NoFile
    /\ dotFile = NoFile
    /\ exitCode = Running
    /\ log = <<>>
    /\ ParseIdle
    /\ ResolveIdle
    /\ ClosureIdle

\* the runs on names of three characters or more, then those on shorter names
Init ==
    \/ InitRun({fl \in FileNames : Len(fl) >= 3})
    \/ InitRun({fl \in FileNames : Len(fl) < 3})

(***************************************************************************)
(* main                                                                    *)
(***************************************************************************)
inputs == <<options, annotationOpts, dump_bb_only, env>>

Exit(code) ==
    /\ exitCode' = code
    /\ pc' = "done"

\* a failed parse goes on to the entry check
main_parse_NoReturn ==
    /\ pc = "parse"
    /\ IF env.parseOk
       THEN errs' = errs
       ELSE errs' = errs \o <<Msg("diagnostic", options.inputFile),
                              Msg("Failed parsing", options.inputFile)>>
    /\ pc' = "entry"
    /\ UNCHANGED <<inputs, annotationOptions, annotFile, dotFile, exitCode, log,
                   notMain>>

\* parseModule and the check of its result
main_parse ==
    /\ pc = "parse"
    /\ \/ /\ ~env.parseOk
          /\ errs' = errs \o <<Msg("diagnostic", options.inputFile),
                               Msg("Failed parsing", options.inputFile)>>
          /\ Exit(EXIT_ERROR)
       \/ /\ env.parseOk
          /\ errs' = errs
          /\ pc' = "entry"
          /\ exitCode' = exitCode
    /\ UNCHANGED <<inputs, annotationOptions, annotFile, dotFile, log, notMain>>

\* M->getFunction(entryFunction) and the check of its result
main_entry ==
    /\ pc = "entry"
    /\ \/ /\ ~env.entryFound
          /\ errs' = Append(errs, Msg("The entry function not found",
                                      options.entryFunction))
          /\ Exit(EXIT_ERROR)
       \/ /\ env.entryFound
          /\ errs' = errs
          /\ pc' = "construct"
          /\ exitCode' = exitCode
    /\ UNCHANGED <<inputs, annotationOptions, annotFile, dotFile, log, notMain>>

\* the annotator is built with the parsed -annotate string. The resolution of
\* the slicing criteria that follows in the file (getSlicingCriteriaNodes,
\* findSecondarySlicingCriteria and their messages) is commented out: no
\* step of main reads env.criteriaFound or env.secondaryOk.
main_construct ==
    /\ pc = "construct"
    /\ annotationOptions' = parseAnnotationOptions(annotationOpts)
    /\ pc' = "annotate"
    /\ UNCHANGED <<inputs, errs, annotFile, dotFile, exitCode, log, notMain>>

\* ModuleAnnotator::annotate writing the file named fl
annotate_write(fl) ==
    /\ errs' = Append(errs, Msg("Saving IR with annotations to", fl))
    /\ annotFile' = annotatedIR(fl, options, annotationOptions)
    /\ log' = log \o <<"annotate:begin", "annotate:end">>
    /\ pc' = "dump"
    /\ exitCode' = exitCode

\* if (annotator.shouldAnnotate()) annotator.annotate(...)
main_annotate ==
    /\ pc = "annotate"
    /\ \/ /\ ~shouldAnnotate(annotationOptions)
          /\ pc' = "dump"
          /\ UNCHANGED <<errs, annotFile, exitCode, log>>
       \/ /\ shouldAnnotate(annotationOptions)
          /\ Len(options.inputFile) >= 3
          /\ annotate_write(annotateName(options.inputFile))
       \/ /\ shouldAnnotate(annotationOptions)
          /\ Len(options.inputFile) < 3
          /\ \E fl \in annotateNameUB(options.inputFile) : annotate_write(fl)
       \/ /\ shouldAnnotate(annotationOptions)
          /\ Len(options.inputFile) < 3
          /\ log' = Append(log, "annotate:begin")
          /\ Exit(EXIT_ABORT)
          /\ UNCHANGED <<errs, annotFile>>
    /\ UNCHANGED <<inputs, annotationOptions, dotFile, notMain>>

\* SDGDumper::dumpToDot() and main's return
main_dump ==
    /\ pc = "dump"
    /\ LET fl == replace_suffix(options.inputFile, DotSuffix)
           said == Append(errs, Msg("Dumping SDG to", fl))
       IN  \/ /\ dump_bb_only
              /\ ~env.ndebug
              /\ errs' = Append(said, Msg("Assertion failed: Not implemented", <<>>))
              /\ log' = Append(log, "dumpToDot:begin")
              /\ dotFile' = dotFile
              /\ Exit(EXIT_ABORT)
           \/ /\ dump_bb_only
              /\ env.ndebug
              /\ errs' = said
              /\ log' = log \o <<"dumpToDot:begin", "dumpToDot:end">>
              /\ dotFile' = dotFile
              /\ Exit(EXIT_OK)
           \/ /\ ~dump_bb_only
              /\ errs' = said
              /\ log' = log \o <<"dumpToDot:begin", "SDG2Dot::dump", "dumpToDot:end">>
              /\ dotFile' = [written |-> TRUE, name |-> fl]
              /\ Exit(EXIT_OK)
    /\ UNCHANGED <<inputs, annotationOptions, annotFile, notMain>>

Next ==
    \/ main_parse
    \/ main_entry
    \/ main_construct
    \/ main_annotate
    \/ main_dump

Spec == Init /\ [][Next]_vars

(***************************************************************************)
(* parseAnnotationOptions called on its own, several times in a row        *)
(***************************************************************************)
Vocabulary ==
    {S_dd, S_cd, S_rd, S_pta, S_slice, S_sl, S_slicer,
     <<>>, <<"x">>, <<"d", "d", "d">>}

RECURSIVE Join(_)
Join(lst) ==
    IF Len(lst) = 1 THEN lst[1]
    ELSE lst[1] \o <<Comma>> \o Join(Tail(lst))

\* the strings made of up to MaxTokens items separated by commas
OptionStrings ==
    {<<>>} \cup
    UNION {{Join(lst) : lst \in [1..n -> Vocabulary]} : n \in 1..MaxTokens}

MainIdle ==
    /\ pc = "done"
    /\ options = CHOOSE o \in SlicerOptions : TRUE
    /\ annotationOpts = <<>>
    /\ dump_bb_only = FALSE
    /\ env = CHOOSE e \in Environments : TRUE
    /\ annotationOptions = {}
    /\ errs = <<>>
    /\ annotFile = NoFile
    /\ dotFile = NoFile
    /\ exitCode = Running
    /\ log = <<>>

InitParse ==
    /\ MainIdle
    /\ ParseIdle
    /\ ResolveIdle
    /\ ClosureIdle

parse_call ==
    /\ p_calls < MaxCalls
    /\ \E annot \in OptionStrings :
          /\ p_annot' = annot
          /\ p_opts' = parseAnnotationOptions(annot)
    /\ p_calls' = p_calls + 1
    /\ UNCHANGED notParse

NextParse == parse_call

SpecParse == InitParse /\ [][NextParse]_vars

(***************************************************************************)
(* Criteria Resolver: resolve(criterion, sdg), a scan of all the nodes     *)
(***************************************************************************)
Locations == {"L1", "L2"}
VarNames == {"x", "y"}

InitResolve ==
    /\ MainIdle
    /\ ParseIdle
    /\ ClosureIdle
    /\ r_nodes \in [Nodes -> [loc : Locations, name : VarNames]]
    /\ r_crit \in [loc : Locations \cup {"L3"}, name : VarNames \cup {NoName}]
    /\ r_next = 1
    /\ r_found = {}
    /\ r_pc = "scan"

\* a node matches when its location is the requested one and, if a variable
\* is named, its variable is the requested one
resolve_matches(node, crit) ==
    /\ node.loc = crit.loc
    /\ (crit.name # NoName => node.name = crit.name)

\* the scan ends at the first match
resolve_scan_FirstOnly ==
    /\ r_pc = "scan"
    /\ r_next <= NumNodes
    /\ IF resolve_matches(r_nodes[r_next], r_crit)
       THEN r_found' = r_found \cup {r_next} /\ r_pc' = "done"
       ELSE r_found' = r_found /\ r_pc' = r_pc
    /\ r_next' = r_next + 1
    /\ UNCHANGED <<r_nodes, r_crit, notResolve>>

\* one node of the scan
resolve_scan ==
    /\ r_pc = "scan"
    /\ r_next <= NumNodes
    /\ r_found' = IF resolve_matches(r_nodes[r_next], r_crit)
                  THEN r_found \cup {r_next}
                  ELSE r_found
    /\ r_next' = r_next + 1
    /\ UNCHANGED <<r_nodes, r_crit, r_pc, notResolve>>

\* the scan is over: the set found is returned
resolve_return ==
    /\ r_pc = "scan"
    /\ r_next > NumNodes
    /\ r_pc' = "done"
    /\ UNCHANGED <<r_nodes, r_crit, r_next, r_found, notResolve>>

NextResolve == resolve_scan \/ resolve_return

SpecResolve == InitResolve /\ [][NextResolve]_vars

(***************************************************************************)
(* Criteria Resolver: findSecondarryNodes(seedNodes, controlNames,         *)
(* dataNames), the closure over control and over data dependence edges     *)
(***************************************************************************)
NameOf(n) == IF n % 2 = 1 THEN "x" ELSE "y"

Ring == {<<n, (n % NumNodes) + 1>> : n \in Nodes}
Chain == {<<n, n + 1>> : n \in 1..(NumNodes - 1)}
SelfLoops == {<<n, n>> : n \in Nodes}
Star == {<<1, n>> : n \in Nodes} \cup {<<n, 1>> : n \in Nodes}

\* the pairs (control edges, data edges) of the graphs searched
Graphs ==
    {<<Ring, Chain>>, <<Chain, Ring>>, <<SelfLoops, Star>>, <<Star, {}>>,
     <<Nodes \X Nodes, SelfLoops>>, <<{}, Nodes \X Nodes>>}

NameSets ==
    {[control |-> {"x"}, data |-> {"y"}], [control |-> {}, data |-> {"x", "y"}],
     [control |-> {"y"}, data |-> {}]}

InitClosure ==
    /\ MainIdle
    /\ ParseIdle
    /\ ResolveIdle
    /\ \E g \in Graphs : c_control = g[1] /\ c_data = g[2]
    /\ c_names \in NameSets
    /\ c_seeds = {}
    /\ c_phase = "idle"
    /\ c_work = {}
    /\ c_visited = {}
    /\ c_visits = [n \in Nodes |-> 0]
    /\ c_result = {}
    /\ c_calls = 0

EdgesOf(phase) == IF phase = "control" THEN c_control ELSE c_data
NamesOf(phase) == IF phase = "control" THEN c_names.control ELSE c_names.data
Successors(n, edges) == {e[2] : e \in {d \in edges : d[1] = n}}

\* the count of visits, which stops at 2
Visit(n) == [c_visits EXCEPT ![n] = IF @ < 2 THEN @ + 1 ELSE @]

\* a traversal begins at the seeds with a visited set of its own
closure_begin(phase) ==
    /\ c_phase' = phase
    /\ c_work' = c_seeds'
    /\ c_visited' = c_seeds'
    /\ c_visits' = [n \in Nodes |-> 0]

\* the call: the result starts as the seeds (the set is augmented)
closure_call ==
    /\ c_phase = "idle"
    /\ c_calls < MaxClosureCalls
    /\ c_seeds' \in SUBSET Nodes
    /\ c_result' = c_seeds'
    /\ closure_begin("control")
    /\ UNCHANGED <<c_control, c_data, c_names, c_calls, notClosure>>

\* the successors to push: every one, visited or not
closure_push_All(n) == Successors(n, EdgesOf(c_phase))

\* the successors to push: those not in the visited set
closure_push(n) == Successors(n, EdgesOf(c_phase)) \ c_visited

\* one node is taken from the work set and visited
closure_visit ==
    /\ c_phase \in {"control", "data"}
    /\ \E n \in c_work :
          /\ c_visits' = Visit(n)
          /\ c_result' = IF NameOf(n) \in NamesOf(c_phase)
                         THEN c_result \cup {n}
                         ELSE c_result
          /\ c_work' = (c_work \ {n}) \cup closure_push(n)
          /\ c_visited' = c_visited \cup closure_push(n)
    /\ UNCHANGED <<c_control, c_data, c_names, c_seeds, c_phase, c_calls,
                   notClosure>>

\* the control traversal is over: the data traversal begins
closure_data ==
    /\ c_phase = "control"
    /\ c_work = {}
    /\ c_seeds' = c_seeds
    /\ closure_begin("data")
    /\ UNCHANGED <<c_control, c_data, c_names, c_result, c_calls, notClosure>>

\* the data traversal is over: the call returns
closure_return ==
    /\ c_phase = "data"
    /\ c_work = {}
    /\ c_phase' = "idle"
    /\ c_calls' = c_calls + 1
    /\ UNCHANGED <<c_control, c_data, c_names, c_seeds, c_work, c_visited,
                   c_visits, c_result, notClosure>>

NextClosure ==
    \/ closure_call
    \/ closure_visit
    \/ closure_data
    \/ closure_return

\* the search is a loop of one thread: it goes on while it has a step to take
SpecClosure == InitClosure /\ [][NextClosure]_vars /\ WF_vars(NextClosure)

(***************************************************************************)
(* Properties                                                              *)
(***************************************************************************)
\* the item t stands in the comma-separated list s, from a comma (or the
\* start) to the next comma (or the end)
Occurs(t, s) ==
    \E i \in 1..Len(s) :
        /\ i + Len(t) - 1 <= Len(s)
        /\ SubSeq(s, i, i + Len(t) - 1) = t
        /\ (i = 1 \/ s[i - 1] = Comma)
        /\ (i + Len(t) - 1 = Len(s) \/ s[i + Len(t)] = Comma)

TokensOf(flag) ==
    CASE flag = ANNOTATE_DD -> {S_dd}
      [] flag = ANNOTATE_CD -> {S_cd}
      [] flag = ANNOTATE_RD -> {S_rd}
      [] flag = ANNOTATE_PTR -> {S_pta}
      [] flag = ANNOTATE_SLICE -> {S_slice, S_sl, S_slicer}

Has(event) == \E i \in 1..Len(log) : log[i] = event
Count(event) == Cardinality({i \in 1..Len(log) : log[i] = event})
Said(m) == \E i \in 1..Len(errs) : errs[i].msg = m
PastChecks == env.parseOk /\ env.entryFound /\ pc \notin {"parse", "entry"}

\* C1: the result of parseAnnotationOptions is a set of known flags in which
\* a flag is set exactly when one of its tokens is an item of the
\* comma-separated argument, whatever was parsed before: unknown items set
\* nothing, and the empty string gives the empty set.
C1_ParseIsUnionOfTokens ==
    p_calls > 0 =>
        /\ p_opts \subseteq AllFlags
        /\ \A f \in AllFlags :
              f \in p_opts <=> \E t \in TokensOf(f) : Occurs(t, p_annot)
        /\ (p_annot = <<>> => p_opts = {})

C1_Witness ==
    /\ p_calls = 2
    /\ p_annot = S_sl \o <<Comma>> \o <<"x">>
    /\ p_opts = {ANNOTATE_SLICE}

\* C2: when the input does not parse or the entry function is missing, the
\* run ends with the error reported and a non-zero status, and writes
\* neither the annotated-IR file nor the dot file.
C2_InputErrorIsFatal ==
    (~env.parseOk \/ ~env.entryFound) =>
        /\ ~annotFile.written
        /\ ~dotFile.written
        /\ log = <<>>
        /\ pc \in {"parse", "entry", "done"}
        /\ (pc = "done" =>
              /\ exitCode = EXIT_ERROR
              /\ IF env.parseOk THEN Said("The entry function not found")
                                ELSE Said("Failed parsing"))

C2_Witness ==
    /\ pc = "done"
    /\ env.parseOk
    /\ ~env.entryFound
    /\ exitCode = EXIT_ERROR

\* C3: with dump-bb-only set, a run that reaches dumpToDot reports the mode
\* as unsupported and fails: the per-instruction exporter does not run, no
\* dot file is written, and the exit status is not 0.
C3_BBOnlyIsFatal ==
    (dump_bb_only /\ Has("dumpToDot:begin")) =>
        /\ Said("Assertion failed: Not implemented")
        /\ ~Has("SDG2Dot::dump")
        /\ ~dotFile.written
        /\ (pc = "done" => exitCode # EXIT_OK)

\* C4 as stated: with an empty -annotate string, the finished run has
\* rendered an annotated output made of the module comment and the module's
\* text, without per-instruction blocks.
C4_EmptyOptionsRenderHeaderOnly ==
    (annotationOpts = <<>> /\ pc = "done" /\ exitCode = EXIT_OK) =>
        /\ annotFile.written
        /\ annotFile.comment = module_comment(options)
        /\ annotFile.blocks = {}
        /\ annotFile.text = "module"

\* C4 amended: with an empty -annotate string the run renders no annotated
\* output at all: annotate is not called and no annotated-IR file is
\* written, so there is no per-instruction block (and no module comment).
C4_EmptyOptionsRenderNothing ==
    annotationOpts = <<>> =>
        /\ ~annotFile.written
        /\ ~Has("annotate:begin")
        /\ ~Said("Saving IR with annotations to")

C4_Witness ==
    /\ annotationOpts = <<>>
    /\ pc = "done"
    /\ exitCode = EXIT_OK
    /\ dotFile.written
    /\ ~annotFile.written

\* C5: a miss (no node matches the primary criterion) is reported with a
\* "did not find" diagnostic and the run goes on to render; a failure of the
\* secondary search is reported as an error and the run exits non-zero
\* without rendering.
C5_MissAndFailureDiffer ==
    (PastChecks /\ pc = "done") =>
        /\ (~env.secondaryOk =>
              /\ Said("Finding secondary slicing criteria nodes failed")
              /\ exitCode # EXIT_OK
              /\ ~annotFile.written
              /\ ~dotFile.written)
        /\ ((~env.criteriaFound /\ env.secondaryOk) =>
              /\ Said("Did not find slicing criteria")
              /\ Has("dumpToDot:begin"))

RECURSIVE LineFrom(_, _)
\* the pieces of text from position i up to the next newline
LineFrom(text, i) ==
    IF i > Len(text) \/ text[i] = NL THEN <<>>
    ELSE <<text[i]>> \o LineFrom(text, i + 1)

\* the lines of a text: each starts at the text's start or after a newline
LineStarts(text) == {i \in 1..Len(text) : i = 1 \/ text[i - 1] = NL}
Lines(text) == {LineFrom(text, i) : i \in LineStarts(text)}

ModeNames == {"flow-insensitive", "flow-sensitive", "flow-sensitive with invalidate"}

\* C8: the module comment of the annotated file has a line for each criteria
\* string, a "pointer analysis:" line made of the label and a mode name, and
\* a "PTA field sensitivity:" line of its own.
C8_HeaderLines ==
    annotFile.written =>
        LET lines == Lines(annotFile.comment)
        IN  /\ <<CritLabel, options.slicingCriteria, "'">> \in lines
            /\ <<SecCritLabel, options.secondarySlicingCriteria, "'">> \in lines
            /\ \E m \in ModeNames : <<PtaLabel, m>> \in lines
            /\ \E l \in lines : Len(l) > 1 /\ l[1] = FieldLabel

\* the name up to its final extension (all of it when it has none)
BaseName(fl) ==
    LET d == LastDot(fl, Len(fl))
    IN  IF d = 0 THEN fl ELSE SubSeq(fl, 1, d - 1)

\* C9: whenever annotate is called it writes the annotated file, and the
\* file's name is the input's name with its final extension replaced by
\* "-debug.ll".
C9_AnnotatedFileName ==
    /\ (Has("annotate:begin") => Has("annotate:end") /\ annotFile.written)
    /\ (annotFile.written =>
            annotFile.name = BaseName(options.inputFile) \o DebugSuffix)

\* the first position of an event in the log (0 when absent)
First(event) ==
    IF Has(event) THEN CHOOSE i \in 1..Len(log) :
                           log[i] = event /\ \A j \in 1..(i - 1) : log[j] # event
    ELSE 0

\* C10: a run that passed the parse and entry checks and ended has run
\* annotate once if the parsed option set is non-empty and not at all
\* otherwise, has run dumpToDot exactly once, and finished annotate before
\* dumpToDot began.
C10_AnnotateThenDumpOnce ==
    (PastChecks /\ pc = "done") =>
        /\ Count("annotate:begin") = (IF annotationOptions # {} THEN 1 ELSE 0)
        /\ Count("annotate:end") = Count("annotate:begin")
        /\ Count("dumpToDot:begin") = 1
        /\ (Has("annotate:begin") => First("annotate:end") < First("dumpToDot:begin"))

\* C7: resolve returns exactly the nodes whose location is the requested one
\* (and whose variable is the requested one when one is given): all of them,
\* only them, and the empty set when there is none.
C7_ResolveAllMatches ==
    r_pc = "done" =>
        /\ \A n \in Nodes :
              n \in r_found <=>
                  /\ r_nodes[n].loc = r_crit.loc
                  /\ (r_crit.name = NoName \/ r_nodes[n].name = r_crit.name)
        /\ \A n \in r_found : r_nodes[n].loc = r_crit.loc
        /\ ((\A n \in Nodes : r_nodes[n].loc # r_crit.loc) => r_found = {})

C7_Witness ==
    /\ r_pc = "done"
    /\ r_crit = [loc |-> "L1", name |-> NoName]
    /\ Cardinality(r_found) >= 2
    /\ r_found # Nodes

RECURSIVE Reach(_, _)
\* the nodes reachable from S along the edges
Reach(S, edges) ==
    LET T == S \cup UNION {Successors(n, edges) : n \in S}
    IN  IF T = S THEN S ELSE Reach(T, edges)

Closure(seeds) ==
    seeds
    \cup {n \in Reach(seeds, c_control) : NameOf(n) \in c_names.control}
    \cup {n \in Reach(seeds, c_data) : NameOf(n) \in c_names.data}

ClosureDone == c_phase = "idle" /\ c_calls = MaxClosureCalls

\* C6: every search ends, no traversal visits a node twice, and what a call
\* returns is the closure of its own seeds, whatever the calls before it
\* visited.
C6_ClosureTerminates ==
    /\ [](\A n \in Nodes : c_visits[n] <= 1)
    /\ []((c_phase = "idle" /\ c_calls > 0) => c_result = Closure(c_seeds))
    /\ <>ClosureDone

C6_Witness ==
    /\ ClosureDone
    /\ Ring \subseteq c_data
    /\ c_seeds = {1}
    /\ \A n \in Nodes : c_visits[n] = 1

====
